---- MODULE Spec2Model ----
(***************************************************************************)
(* Model of the alert engine of the-eye: the consecutive/cooldown alert    *)
(* decision of FireDetectionPipeline (app/pipeline.py), the lock-protected *)
(* AlertStore and the dashboard handlers (app/web_notifier.py), and the    *)
(* Telegram polling loop with its callback bridge (app/notifier.py).       *)
(***************************************************************************)
EXTENDS Integers, Sequences, FiniteSets, TLC

\* ---------------------------------------------------------------- bounds
MaxAlerts == 2
MaxClock == 6
MaxRun == 4
MaxEvents == 2
MaxSyncAlerts == 1
MaxSyncEvents == 1

\* ------------------------------------------------------ program constants
DefaultLimit == 50
DefaultThreshold == 3
DefaultCooldown == 30

\* ---------------------------------------------------------------- threads
FrameT == "frame"
BotT == "bot"
Bot2T == "bot2"
Loops == {BotT, Bot2T}
Workers == {"w1"}
Clients == {"c1", "c2"}
Threads == {FrameT} \cup Loops \cup Workers \cup Clients

VARIABLES
    alerts,             \* AlertStore.alerts: list of alert dicts
    lock,               \* AlertStore.lock: "free" or the holding thread
    id_counter,         \* AlertStore._id_counter
    call,               \* per thread: the AlertStore method it is executing
    clock,              \* what time.time() / datetime.now() returns
    add_returned,       \* history: number of add_alert calls that returned
    add_ids,            \* history: the ids those calls returned
    written,            \* history: last status written per alert position
    config,             \* Config: consecutive_detections, alert_cooldown, channels
    limits,             \* the run: how many alerts the video causes, buttons pressed
    fpc,                \* position of FireDetectionPipeline.run
    consecutive_count,  \* FireDetectionPipeline.consecutive_count
    last_alert_time,    \* FireDetectionPipeline.last_alert_time
    alert_count,        \* FireDetectionPipeline.alert_count
    detections,         \* run: the current frame's detections
    alert_id,           \* run: alert_id of the alert being dispatched (0 = None)
    tg_sent,            \* Telegram: the messages delivered, by their button id
    run_len,            \* history: length of the current run of detecting frames
    last_ret,           \* history: what the latest _should_alert call returned
    true_times,         \* history: times of the last two calls that returned True
    scen,               \* history: how far the calls follow Scenario (-1: not)
    scen_fired,         \* history: scenario times at which a call returned True
    since_alert,        \* history: detecting frames in a row since the last alert
    polling_active,     \* TelegramNotifier.polling_active
    last_update_id,     \* TelegramNotifier.last_update_id
    polling_thread,     \* TelegramNotifier.polling_thread ("none" = None)
    owner,              \* the caller of stop_polling: "idle", or "join" inside join(timeout=5)
    bpc,                \* per polling thread: position in _poll_updates
    batch,              \* per polling thread: updates of data["result"] still to handle
    cur,                \* per polling thread: the update _handle_update handles
    inbox,              \* Telegram: update_ids of callback queries not yet confirmed by an offset
    next_update_id,     \* Telegram: update_id of the next callback query
    wpc,                \* per dashboard worker: position in its request handler
    wreq,               \* per dashboard worker: the request it serves
    wresp,              \* per dashboard worker: the response it sends
    handled,            \* history: per update_id, how often it was handled
    outcome,            \* history: per update_id, how its handling ended
    settled,            \* history: per alert, status set by the bot and not overwritten
    expect              \* history: per worker, settled as its read started

storeVars == <<alerts, lock, id_counter, call>>
histVars == <<add_returned, add_ids, written, settled, expect>>
frameVars == <<config, limits, fpc, consecutive_count, last_alert_time, alert_count,
               detections, alert_id, tg_sent>>
frameHist == <<run_len, last_ret, true_times, scen, scen_fired, since_alert>>
botVars == <<polling_active, polling_thread, owner, last_update_id, bpc, batch, cur, inbox,
             next_update_id, handled, outcome>>
workerVars == <<wpc, wreq, wresp>>
env == <<clock, frameVars, frameHist, botVars, workerVars>>

\* ------------------------------------------------------------- detections
\* A frame's detections, as the list of their labels.
DetectionLists == {<< >>, <<"smoke", "fire", "smoke">>}

RECURSIVE CountOf(_, _)
CountOf(labels, l) ==
    IF labels = << >> THEN 0
    ELSE (IF Head(labels) = l THEN 1 ELSE 0) + CountOf(Tail(labels), l)

LabelSet(labels) == {labels[i] : i \in 1..Len(labels)}

\* max(set(labels), key=labels.count), "fire" when there are no detections
PrimaryLabels(labels) ==
    IF labels = << >> THEN {"fire"}
    ELSE {l \in LabelSet(labels) :
            \A m \in LabelSet(labels) : CountOf(labels, m) <= CountOf(labels, l)}

\* ------------------------------------------------------- callback data
\* callback_data as the list of its pieces: words, the separator "_" and
\* decimal digits ("confirm_42" is <<"confirm", "_", "4", "2">>)
Digits == {"0", "1", "2", "3", "4", "5", "6", "7", "8", "9"}

Tokens ==
    {<<"confirm", "_", "1">>, <<"reject", "_", "1">>,
     <<"confirm", "_", "4", "2">>, <<"foo", "_", "1">>,
     <<"confirm">>, <<"confirm", "_", "x">>}

\* "_" in callback_data
HasSep(data) == \E i \in 1..Len(data) : data[i] = "_"

\* position of the first "_"
RECURSIVE SepPos(_, _)
SepPos(data, i) ==
    IF i > Len(data) THEN 0
    ELSE IF data[i] = "_" THEN i
    ELSE SepPos(data, i + 1)

\* action, alert_id_str = callback_data.split("_", 1)
Action(data) == SubSeq(data, 1, SepPos(data, 1) - 1)
IdStr(data) == SubSeq(data, SepPos(data, 1) + 1, Len(data))

DigitVal(d) ==
    CASE d = "0" -> 0 [] d = "1" -> 1 [] d = "2" -> 2 [] d = "3" -> 3
      [] d = "4" -> 4 [] d = "5" -> 5 [] d = "6" -> 6 [] d = "7" -> 7
      [] d = "8" -> 8 [] d = "9" -> 9 [] OTHER -> 0

\* int(alert_id_str) raises ValueError unless the string is a decimal number
IsInt(str) == Len(str) > 0 /\ \A i \in 1..Len(str) : str[i] \in Digits

RECURSIVE ParseInt(_)
ParseInt(str) ==
    IF str = << >> THEN 0
    ELSE 10 * ParseInt(SubSeq(str, 1, Len(str) - 1)) + DigitVal(str[Len(str)])

\* if "_" in callback_data ... try: int(alert_id_str) ... except ValueError:
\* the data that _handle_update passes over
MalformedNoSep(data) == ~HasSep(data)
Malformed(data) == ~HasSep(data) \/ ~IsInt(IdStr(data))

\* ------------------------------------------------------------- AlertStore
Idle ==
    [op |-> "none", pc |-> "idle", alert_id |-> 0, status |-> "none",
     image_ok |-> TRUE, detections |-> << >>, limit |-> 0,
     ret_id |-> 0, ret_ok |-> FALSE, result |-> << >>, raised |-> FALSE]

AddCall(image_ok, dets) ==
    [Idle EXCEPT !.op = "add", !.pc = "incr",
                 !.image_ok = image_ok, !.detections = dets]

UpdateCall(aid, status) ==
    [Idle EXCEPT !.op = "update", !.pc = "scan",
                 !.alert_id = aid, !.status = status]

PendingCall == [Idle EXCEPT !.op = "pending", !.pc = "filter"]

AllCall(limit) == [Idle EXCEPT !.op = "all", !.pc = "slice", !.limit = limit]

\* with self.lock: the lock can be taken only when no thread holds it
LockAvailableNoLock == TRUE
LockAvailable == lock = "free"

\* with self.lock: self._id_counter += 1
AddIncr(t) ==
    /\ call[t].pc = "incr"
    /\ LockAvailable
    /\ lock' = t
    /\ id_counter' = id_counter + 1
    /\ call' = [call EXCEPT ![t].pc = "encode"]
    /\ UNCHANGED <<alerts, env, histVars>>

\* alert_id = self._id_counter, then
\* cv2.imencode / base64 raise on an image that cannot be encoded: the
\* exception leaves the with block, which releases the lock
AddEncode(t) ==
    /\ call[t].pc = "encode"
    /\ IF call[t].image_ok
       THEN /\ call' = [call EXCEPT ![t].pc = "append",
                                    ![t].alert_id = id_counter]
            /\ UNCHANGED lock
       ELSE /\ call' = [call EXCEPT ![t] = [Idle EXCEPT !.op = "add", !.pc = "done",
                                                        !.raised = TRUE]]
            /\ lock' = "free"
    /\ UNCHANGED <<alerts, id_counter, env, histVars>>

NewAlert(aid, dets, label, now) ==
    [id |-> aid, timestamp |-> now, source |-> "video", label |-> label,
     count |-> Len(dets), status |-> "pending"]

\* build the alert dict, self.alerts.append(alert), return alert_id (which
\* leaves the with block and releases the lock)
AddAppend(t) ==
    /\ call[t].pc = "append"
    /\ \E label \in PrimaryLabels(call[t].detections) :
         alerts' = Append(alerts,
                      NewAlert(call[t].alert_id, call[t].detections, label, clock))
    /\ written' = Append(written, "none")
    /\ settled' = Append(settled, "none")
    /\ expect' = [w \in Workers |-> Append(expect[w], "none")]
    /\ call' = [call EXCEPT ![t] = [Idle EXCEPT !.op = "add", !.pc = "done",
                                                !.ret_id = call[t].alert_id]]
    /\ lock' = "free"
    /\ add_returned' = add_returned + 1
    /\ add_ids' = add_ids \cup {call[t].alert_id}
    /\ UNCHANGED <<id_counter, env>>

\* for alert in self.alerts: if alert["id"] == alert_id: ... (first match)
RECURSIVE FindAlertOrLast(_, _, _)
FindAlertOrLast(as, aid, i) ==
    IF i > Len(as) THEN Len(as)
    ELSE IF as[i].id = aid THEN i
    ELSE FindAlertOrLast(as, aid, i + 1)

RECURSIVE FindAlert(_, _, _)
FindAlert(as, aid, i) ==
    IF i > Len(as) THEN 0
    ELSE IF as[i].id = aid THEN i
    ELSE FindAlert(as, aid, i + 1)

SetStatusFirst(as, i, status) ==
    IF as[i].status = "pending" THEN [as EXCEPT ![i].status = status] ELSE as

SetStatusAll(as, i, status) == [k \in 1..Len(as) |-> [as[k] EXCEPT !.status = status]]
SetStatus(as, i, status) == [as EXCEPT ![i].status = status]

\* history: the status a confirm_<id> / reject_<id> action handled by the
\* polling loop is to leave behind ("none" for any other writer)
BotSettles(t) ==
    IF t \notin Loops THEN "none"
    ELSE IF Action(cur[t].data) = <<"confirm">> THEN "confirmed"
    ELSE IF Action(cur[t].data) = <<"reject">> THEN "rejected"
    ELSE "none"

\* update_status: the lock is taken, the body runs and its return releases
\* the lock
UpdateScan(t) ==
    /\ call[t].pc = "scan"
    /\ LockAvailable
    /\ LET i == FindAlert(alerts, call[t].alert_id, 1) IN
         IF i > 0
         THEN /\ alerts' = SetStatus(alerts, i, call[t].status)
              /\ written' = [written EXCEPT ![i] = call[t].status]
              /\ settled' = [settled EXCEPT ![i] = BotSettles(t)]
              /\ expect' = [w \in Workers |-> [expect[w] EXCEPT ![i] = "none"]]
              /\ call' = [call EXCEPT ![t].pc = "done", ![t].ret_ok = TRUE]
         ELSE /\ call' = [call EXCEPT ![t].pc = "done", ![t].ret_ok = FALSE]
              /\ UNCHANGED <<alerts, written, settled, expect>>
    /\ lock' = "free"
    /\ UNCHANGED <<id_counter, env, add_returned, add_ids>>

\* [a for a in self.alerts if a["status"] == "pending"]: the list holds
\* references to the stored dicts, modelled as positions in self.alerts
RECURSIVE PendingRefsAll(_, _)
PendingRefsAll(as, i) ==
    IF i > Len(as) THEN << >>
    ELSE <<i>> \o PendingRefsAll(as, i + 1)

RECURSIVE PendingRefs(_, _)
PendingRefs(as, i) ==
    IF i > Len(as) THEN << >>
    ELSE (IF as[i].status = "pending" THEN <<i>> ELSE << >>)
             \o PendingRefs(as, i + 1)

PendingFilter(t) ==
    /\ call[t].pc = "filter"
    /\ LockAvailable
    /\ call' = [call EXCEPT ![t].pc = "done",
                            ![t].result = PendingRefs(alerts, 1)]
    /\ lock' = "free"
    /\ UNCHANGED <<alerts, id_counter, env, histVars>>

\* Python slice s[a:]: a negative start counts from the end, clamped
SliceStart(n, a) == IF a < 0 THEN (IF n + a < 0 THEN 0 ELSE n + a)
                    ELSE (IF a > n THEN n ELSE a)

\* self.alerts[-limit:][::-1], as references
RecentRefs(as, limit) ==
    LET n == Len(as)
        s == SliceStart(n, 0 - limit)
    IN [k \in 1..(n - s) |-> n + 1 - k]

AllSlice(t) ==
    /\ call[t].pc = "slice"
    /\ LockAvailable
    /\ call' = [call EXCEPT ![t].pc = "done", ![t].limit = 0,
                            ![t].result = RecentRefs(alerts, call[t].limit)]
    /\ lock' = "free"
    /\ UNCHANGED <<alerts, id_counter, env, histVars>>

AddStep(t) ==
    \/ AddIncr(t)
    \/ AddEncode(t)
    \/ AddAppend(t)

StoreStep(t) ==
    \/ AddIncr(t)
    \/ AddEncode(t)
    \/ AddAppend(t)
    \/ UpdateScan(t)
    \/ PendingFilter(t)
    \/ AllSlice(t)

\* jsonify(alerts): the dicts the result refers to, as they are when read
Deref(refs) == [k \in 1..Len(refs) |-> alerts[refs[k]]]

\* ------------------------------------------------- direct store callers
\* Threads calling the AlertStore methods directly and concurrently.
ClientAdd(c) ==
    /\ call[c].op = "none"
    /\ id_counter + Cardinality({t \in Threads : call[t].pc = "incr"
                                                   /\ call[t].op = "add"}) < limits.alerts
    /\ \E ok \in BOOLEAN, d \in DetectionLists :
         call' = [call EXCEPT ![c] = AddCall(ok, d)]
    /\ UNCHANGED <<alerts, lock, id_counter, env, histVars>>

ClientUpdate(c) ==
    /\ call[c].op = "none"
    /\ \E id \in 1..(limits.alerts + 1), s \in {"confirmed", "rejected"} :
         call' = [call EXCEPT ![c] = UpdateCall(id, s)]
    /\ UNCHANGED <<alerts, lock, id_counter, env, histVars>>

ClientPending(c) ==
    /\ call[c].op = "none"
    /\ call' = [call EXCEPT ![c] = PendingCall]
    /\ UNCHANGED <<alerts, lock, id_counter, env, histVars>>

ClientAll(c) ==
    /\ call[c].op = "none"
    /\ \E limit \in {0, 1, 2, DefaultLimit} :
         call' = [call EXCEPT ![c] = AllCall(limit)]
    /\ UNCHANGED <<alerts, lock, id_counter, env, histVars>>

ClientReturn(c) ==
    /\ call[c].pc = "done"
    /\ call' = [call EXCEPT ![c] = Idle]
    /\ UNCHANGED <<alerts, lock, id_counter, env, histVars>>


\* ------------------------------------------------- FireDetectionPipeline
Thresholds == {-1, 0, 1, 2, DefaultThreshold}
Cooldowns == {0, 2, DefaultCooldown}

Configs ==
    [consecutive_detections : Thresholds, alert_cooldown : Cooldowns,
     web_dashboard_enabled : BOOLEAN, telegram : BOOLEAN]

\* the detection flags of the scenario, one per second from t = 0
Scenario == <<TRUE, TRUE, FALSE, TRUE, TRUE, TRUE, TRUE>>

\* _should_alert: the new consecutive_count and the returned value
ShouldAlertNoReset(has_detections, count, last, now, cfg) ==
    IF ~has_detections THEN [count |-> count, ret |-> FALSE]
    ELSE LET c == count + 1 IN
         IF c < cfg.consecutive_detections THEN [count |-> c, ret |-> FALSE]
         ELSE IF now - last < cfg.alert_cooldown THEN [count |-> c, ret |-> FALSE]
         ELSE [count |-> c, ret |-> TRUE]

ShouldAlertCooldownReset(has_detections, count, last, now, cfg) ==
    IF ~has_detections THEN [count |-> 0, ret |-> FALSE]
    ELSE LET c == count + 1 IN
         IF c < cfg.consecutive_detections THEN [count |-> c, ret |-> FALSE]
         ELSE IF now - last < cfg.alert_cooldown THEN [count |-> 0, ret |-> FALSE]
         ELSE [count |-> c, ret |-> TRUE]

ShouldAlertPositive(has_detections, count, last, now, cfg) ==
    IF ~has_detections THEN [count |-> 0, ret |-> FALSE]
    ELSE LET c == count + 1 IN
         IF cfg.consecutive_detections <= 0 THEN [count |-> c, ret |-> FALSE]
         ELSE IF c < cfg.consecutive_detections THEN [count |-> c, ret |-> FALSE]
         ELSE IF now - last < cfg.alert_cooldown THEN [count |-> c, ret |-> FALSE]
         ELSE [count |-> c, ret |-> TRUE]

ShouldAlert(has_detections, count, last, now, cfg) ==
    IF ~has_detections THEN [count |-> 0, ret |-> FALSE]
    ELSE LET c == count + 1 IN
         IF c < cfg.consecutive_detections THEN [count |-> c, ret |-> FALSE]
         ELSE IF now - last < cfg.alert_cooldown THEN [count |-> c, ret |-> FALSE]
         ELSE [count |-> c, ret |-> TRUE]

\* the end of an iteration: imshow / waitKey, "User quit" when q is pressed
EndOfIteration(quit) == IF quit THEN "cleanup" ELSE "read"

\* one iteration of run up to the alert decision: streamer.read, detect,
\* _should_alert(len(detections) > 0) and the test of line 100; without an
\* alert the iteration ends
FrameRead ==
    /\ fpc = "read"
    /\ consecutive_count < MaxRun /\ run_len < MaxRun /\ alert_count < limits.alerts
    /\ \E d \in DetectionLists, quit \in BOOLEAN :
         LET has == Len(d) > 0
             r == ShouldAlert(has, consecutive_count, last_alert_time, clock, config)
             follows == /\ scen >= 0 /\ scen < Len(Scenario)
                        /\ Scenario[scen + 1] = has /\ clock = scen
         IN /\ detections' = IF r.ret /\ has THEN d ELSE << >>
            /\ consecutive_count' = r.count
            /\ fpc' = IF r.ret /\ has THEN "web" ELSE EndOfIteration(quit)
            /\ run_len' = IF has THEN run_len + 1 ELSE 0
            /\ since_alert' = IF has THEN since_alert + 1 ELSE 0
            /\ last_ret' = r.ret
            /\ true_times' = IF r.ret THEN <<true_times[2], clock>> ELSE true_times
            /\ scen' = IF follows THEN scen + 1 ELSE -1
            /\ scen_fired' = IF follows /\ r.ret THEN scen_fired \cup {clock}
                             ELSE scen_fired
    /\ UNCHANGED <<storeVars, histVars, botVars, workerVars, clock, config, limits, last_alert_time,
                   alert_count, alert_id, tg_sent>>

\* "End of video": streamer.read returns no frame
FrameEnd ==
    /\ fpc = "read"
    /\ fpc' = "cleanup"
    /\ UNCHANGED <<storeVars, histVars, botVars, workerVars, clock, config, limits, consecutive_count,
                   last_alert_time, alert_count, detections, alert_id, tg_sent,
                   frameHist>>

\* alert_id = None; if self.web: alert_id = self.web.send_alert(...)
FrameWebCall ==
    /\ fpc = "web"
    /\ IF config.web_dashboard_enabled
       THEN /\ call' = [call EXCEPT ![FrameT] = AddCall(TRUE, detections)]
            /\ fpc' = "web_wait"
            /\ UNCHANGED alert_id
       ELSE /\ alert_id' = 0
            /\ fpc' = "telegram"
            /\ UNCHANGED call
    /\ UNCHANGED <<alerts, lock, id_counter, histVars, botVars, workerVars, clock, config, limits,
                   consecutive_count, last_alert_time, alert_count, detections,
                   tg_sent, frameHist>>

FrameWebReturnNoId ==
    /\ fpc = "web_wait"
    /\ call[FrameT].pc = "done"
    /\ alert_id' = 0
    /\ call' = [call EXCEPT ![FrameT] = Idle]
    /\ fpc' = "telegram"
    /\ UNCHANGED <<alerts, lock, id_counter, histVars, botVars, workerVars, clock, config, limits,
                   consecutive_count, last_alert_time, alert_count, detections,
                   tg_sent, frameHist>>

\* alert_id = self.web.send_alert(...): the id add_alert returned
FrameWebReturn ==
    /\ fpc = "web_wait"
    /\ call[FrameT].pc = "done"
    /\ alert_id' = call[FrameT].ret_id
    /\ call' = [call EXCEPT ![FrameT] = Idle]
    /\ fpc' = "telegram"
    /\ UNCHANGED <<alerts, lock, id_counter, histVars, botVars, workerVars, clock, config, limits,
                   consecutive_count, last_alert_time, alert_count, detections,
                   tg_sent, frameHist>>

\* what becomes of the sendPhoto request: status 200, another status, or an
\* exception (network, timeout, image conversion)
SendOutcomes == {"ok", "status", "exception"}

\* TelegramNotifier.send_alert: buttons confirm_<alert_id or 0> and
\* reject_<alert_id or 0>; True on status 200, False on any other status,
\* and except Exception: return False
SendAlertRaises(id, response) ==
    [sent |-> IF response = "ok" THEN tg_sent \cup {id} ELSE tg_sent,
     ret |-> response = "ok",
     raised |-> response = "exception"]

SendAlert(id, response) ==
    [sent |-> IF response = "ok" THEN tg_sent \cup {id} ELSE tg_sent,
     ret |-> response = "ok",
     raised |-> FALSE]

\* if self.telegram: self.telegram.send_alert(..., alert_id); an exception
\* leaving the call would leave run through its finally clause
FrameTelegram ==
    /\ fpc = "telegram"
    /\ IF config.telegram
       THEN \E response \in SendOutcomes :
              LET r == SendAlert(alert_id, response) IN
                /\ tg_sent' = r.sent
                /\ fpc' = IF r.raised THEN "cleanup" ELSE "record"
       ELSE /\ fpc' = "record"
            /\ UNCHANGED tg_sent
    /\ UNCHANGED <<storeVars, histVars, botVars, workerVars, clock, config, limits, consecutive_count,
                   last_alert_time, alert_count, detections, alert_id, frameHist>>

FrameRecordNoReset ==
    /\ fpc = "record"
    /\ alert_count' = alert_count + 1
    /\ last_alert_time' = clock
    /\ alert_id' = 0
    /\ detections' = << >>
    /\ since_alert' = 0
    /\ \E quit \in BOOLEAN : fpc' = EndOfIteration(quit)
    /\ UNCHANGED <<storeVars, histVars, botVars, workerVars, clock, config, limits, tg_sent,
                   run_len, last_ret, true_times, scen, scen_fired, consecutive_count>>

\* self.alert_count += 1; self.last_alert_time = time.time();
\* self.consecutive_count = 0
FrameRecordNoTime ==
    /\ fpc = "record"
    /\ alert_count' = alert_count + 1
    /\ consecutive_count' = 0
    /\ alert_id' = 0
    /\ detections' = << >>
    /\ since_alert' = 0
    /\ \E quit \in BOOLEAN : fpc' = EndOfIteration(quit)
    /\ UNCHANGED <<storeVars, histVars, botVars, workerVars, clock, config, limits, tg_sent,
                   run_len, last_ret, true_times, scen, scen_fired, last_alert_time>>

FrameRecord ==
    /\ fpc = "record"
    /\ alert_count' = alert_count + 1
    /\ last_alert_time' = clock
    /\ consecutive_count' = 0
    /\ alert_id' = 0
    /\ detections' = << >>
    /\ since_alert' = 0
    /\ \E quit \in BOOLEAN : fpc' = EndOfIteration(quit)
    /\ UNCHANGED <<storeVars, histVars, botVars, workerVars, clock, config, limits, tg_sent,
                   run_len, last_ret, true_times, scen, scen_fired>>

\* _cleanup: streamer.release, destroyAllWindows, totals printed
FrameCleanup ==
    /\ fpc = "cleanup"
    /\ fpc' = "done"
    /\ UNCHANGED <<storeVars, histVars, botVars, workerVars, clock, config, limits, consecutive_count,
                   last_alert_time, alert_count, detections, alert_id, tg_sent,
                   frameHist>>

\* time passes
Tick ==
    /\ clock < MaxClock
    /\ clock' = clock + 1
    /\ UNCHANGED <<storeVars, histVars, botVars, workerVars, frameVars, frameHist>>

FrameStep ==
    \/ FrameRead
    \/ FrameEnd
    \/ FrameWebCall
    \/ FrameWebReturn
    \/ FrameTelegram
    \/ FrameRecord
    \/ FrameCleanup
    \/ AddStep(FrameT)

\* ------------------------------------------------------ Telegram service
\* the callback queries an update can carry: data of a pressed button (of
\* this or an earlier run, or of another keyboard), the message it belongs
\* to; the content of an update is drawn when the loop takes it up
EventKinds ==
    {[data |-> tok, msg |-> "ok"] : tok \in Tokens}
        \cup {[data |-> <<"confirm", "_", "1">>, msg |-> m] :
                 m \in {"nomessage", "nocaption"}}

NoUpdate == [update_id |-> 0, data |-> << >>, msg |-> "ok"]

\* a user presses a button: Telegram queues a callback query under the
\* next update_id
UserClick ==
    /\ next_update_id <= limits.events
    /\ inbox' = Append(inbox, next_update_id)
    /\ next_update_id' = next_update_id + 1
    /\ UNCHANGED <<storeVars, histVars, clock, frameVars, frameHist, workerVars,
                   polling_active, polling_thread, owner, last_update_id, bpc, batch, cur, handled, outcome>>

\* ascending sub-lists of a list
RECURSIVE SubLists(_)
SubLists(q) ==
    IF q = << >> THEN {<< >>}
    ELSE LET rest == SubLists(Tail(q)) IN
         rest \cup {<<Head(q)>> \o r : r \in rest}

RECURSIVE FromOffset(_, _)
FromOffset(q, offset) ==
    IF q = << >> THEN << >>
    ELSE IF Head(q) >= offset THEN q
    ELSE FromOffset(Tail(q), offset)

\* ------------------------------------------------------ TelegramNotifier
\* params["offset"] of the getUpdates request
RequestOffsetSame(last) == last
RequestOffset(last) == last + 1

PollTopAlways(l) ==
    /\ bpc[l] = "top"
    /\ bpc' = [bpc EXCEPT ![l] = "request"]
    /\ inbox' = FromOffset(inbox, RequestOffset(last_update_id))
    /\ UNCHANGED <<storeVars, histVars, clock, frameVars, frameHist, workerVars,
                   polling_active, polling_thread, owner, last_update_id, batch, cur, next_update_id,
                   handled, outcome>>

\* while self.polling_active: requests.get(getUpdates, offset, timeout);
\* Telegram forgets the updates below the offset
PollTop(l) ==
    /\ bpc[l] = "top"
    /\ IF polling_active
       THEN /\ bpc' = [bpc EXCEPT ![l] = "request"]
            /\ inbox' = FromOffset(inbox, RequestOffset(last_update_id))
       ELSE /\ bpc' = [bpc EXCEPT ![l] = "stopped"]
            /\ UNCHANGED inbox
    /\ UNCHANGED <<storeVars, histVars, clock, frameVars, frameHist, workerVars,
                   polling_active, polling_thread, owner, last_update_id, batch, cur, next_update_id,
                   handled, outcome>>

\* the answer to getUpdates: an exception (network, timeout, bad JSON), a
\* status other than 200, or 200 with updates whose id is >= the offset
PollResponse(l) ==
    /\ bpc[l] = "request"
    /\ \/ /\ bpc' = [bpc EXCEPT ![l] = "backoff"]
          /\ UNCHANGED batch
       \/ /\ bpc' = [bpc EXCEPT ![l] = "top"]
          /\ UNCHANGED batch
       \/ \E r \in SubLists(inbox) :
            /\ batch' = [batch EXCEPT ![l] = r]
            /\ bpc' = [bpc EXCEPT ![l] = IF r = << >> THEN "top" ELSE "loop"]
    /\ UNCHANGED <<storeVars, histVars, clock, frameVars, frameHist, workerVars,
                   polling_active, polling_thread, owner, last_update_id, cur, inbox, next_update_id,
                   handled, outcome>>

Max(a, b) == IF a >= b THEN a ELSE b

\* for update in data["result"]:
\*     self.last_update_id = max(self.last_update_id, update["update_id"])
PollNext(l, kinds) ==
    /\ bpc[l] = "loop"
    /\ IF batch[l] = << >>
       THEN /\ bpc' = [bpc EXCEPT ![l] = "top"]
            /\ UNCHANGED <<last_update_id, cur, batch>>
       ELSE /\ last_update_id' = Max(last_update_id, Head(batch[l]))
            /\ \E k \in kinds :
                 cur' = [cur EXCEPT ![l] = [update_id |-> Head(batch[l]), data |-> k.data, msg |-> k.msg]]
            /\ batch' = [batch EXCEPT ![l] = Tail(batch[l])]
            /\ bpc' = [bpc EXCEPT ![l] = "handle"]
    /\ UNCHANGED <<storeVars, histVars, clock, frameVars, frameHist, workerVars,
                   polling_active, polling_thread, owner, inbox, next_update_id, handled, outcome>>

\* handle_telegram_callback: the status written for an action
CallbackStatusConfirmed(action) == "confirmed"
CallbackStatus(action) == IF action = <<"confirm">> THEN "confirmed" ELSE "rejected"

\* _handle_update up to the callback: the message fields are read (KeyError
\* when the query has no message), the data is split and the id parsed, and
\* the handler calls store.update_status
HandleUpdate(l) ==
    /\ bpc[l] = "handle"
    /\ handled' = [handled EXCEPT ![cur[l].update_id] = @ + 1]
    /\ IF cur[l].msg = "nomessage"
       THEN /\ bpc' = [bpc EXCEPT ![l] = "backoff"]
            /\ batch' = [batch EXCEPT ![l] = << >>]
            /\ outcome' = [outcome EXCEPT ![cur[l].update_id] = "raised"]
            /\ UNCHANGED <<call, cur>>
       ELSE IF Malformed(cur[l].data)
       THEN /\ bpc' = [bpc EXCEPT ![l] = "loop"]
            /\ cur' = [cur EXCEPT ![l] = NoUpdate]
            /\ outcome' = [outcome EXCEPT ![cur[l].update_id] = "dropped"]
            /\ UNCHANGED <<call, batch>>
       ELSE /\ call' = [call EXCEPT ![l] =
                          UpdateCall(ParseInt(IdStr(cur[l].data)),
                                     CallbackStatus(Action(cur[l].data)))]
            /\ bpc' = [bpc EXCEPT ![l] = "callback"]
            /\ outcome' = [outcome EXCEPT ![cur[l].update_id] = "called"]
            /\ UNCHANGED <<cur, batch>>
    /\ UNCHANGED <<alerts, lock, id_counter, histVars, clock, frameVars, frameHist,
                   workerVars, polling_active, polling_thread, owner, last_update_id, inbox,
                   next_update_id>>

\* the status line appended to the caption
StatusText(action) == IF action = <<"confirm">> THEN "CONFIRMED" ELSE "REJECTED"

\* after the handler: _answer_callback_query, then _edit_message_caption with
\* the caption (KeyError when the message has none) plus the status line
BotAcknowledge(l) ==
    /\ bpc[l] = "callback"
    /\ call[l].pc = "done"
    /\ call' = [call EXCEPT ![l] = Idle]
    /\ IF cur[l].msg = "nocaption"
       THEN /\ bpc' = [bpc EXCEPT ![l] = "backoff"]
            /\ batch' = [batch EXCEPT ![l] = << >>]
            /\ outcome' = [outcome EXCEPT ![cur[l].update_id] = "raised"]
            /\ UNCHANGED cur
       ELSE /\ bpc' = [bpc EXCEPT ![l] = "loop"]
            /\ cur' = [cur EXCEPT ![l] = NoUpdate]
            /\ outcome' = [outcome EXCEPT ![cur[l].update_id] = "edited"]
            /\ UNCHANGED batch
    /\ UNCHANGED <<alerts, lock, id_counter, histVars, clock, frameVars, frameHist,
                   workerVars, polling_active, polling_thread, owner, last_update_id, inbox,
                   next_update_id, handled>>

PollBackoffExit(l) ==
    /\ bpc[l] = "backoff"
    /\ bpc' = [bpc EXCEPT ![l] = "stopped"]
    /\ cur' = [cur EXCEPT ![l] = NoUpdate]
    /\ UNCHANGED <<storeVars, histVars, clock, frameVars, frameHist, workerVars,
                   polling_active, polling_thread, owner, last_update_id, batch, inbox,
                   next_update_id, handled, outcome>>

\* except Exception: print, time.sleep(5)
PollBackoff(l) ==
    /\ bpc[l] = "backoff"
    /\ bpc' = [bpc EXCEPT ![l] = "top"]
    /\ cur' = [cur EXCEPT ![l] = NoUpdate]
    /\ UNCHANGED <<storeVars, histVars, clock, frameVars, frameHist, workerVars,
                   polling_active, polling_thread, owner, last_update_id, batch, inbox,
                   next_update_id, handled, outcome>>

\* positions where the polling thread waits on the network or sleeps:
\* requests.get(timeout=15), the handler's posts (timeout=10), time.sleep(5)
Blocking == {"request", "callback", "backoff"}

\* stop_polling, called by the owner of the notifier: the flag is cleared
\* and the recorded thread, if any, is joined for at most 5 seconds
StopPolling ==
    /\ owner = "idle"
    /\ polling_active
    /\ polling_active' = FALSE
    /\ owner' = IF polling_thread # "none" THEN "join" ELSE "idle"
    /\ UNCHANGED <<storeVars, histVars, clock, frameVars, frameHist, workerVars,
                   polling_thread, last_update_id, bpc, batch, cur, inbox, next_update_id,
                   handled, outcome>>

\* polling_thread.join(timeout=5) returns: the thread has ended, or the
\* five seconds ran out while the thread was waiting
StopJoin ==
    /\ owner = "join"
    /\ \/ bpc[polling_thread] = "stopped"
       \/ bpc[polling_thread] \in Blocking
    /\ owner' = "idle"
    /\ UNCHANGED <<storeVars, histVars, clock, frameVars, frameHist, workerVars,
                   polling_active, polling_thread, last_update_id, bpc, batch, cur,
                   inbox, next_update_id, handled, outcome>>

\* start_polling: returns at once when a thread is recorded and the flag is
\* set; otherwise it sets the flag and starts a new thread on _poll_updates,
\* whatever the thread started before is doing (a thread that has ended
\* lends its name to the new one)
StartPolling ==
    /\ owner = "idle"
    /\ ~(polling_thread # "none" /\ polling_active)
    /\ \E l \in Loops :
        /\ bpc[l] \in {"off", "stopped"}
        /\ polling_active' = TRUE
        /\ polling_thread' = l
        /\ bpc' = [bpc EXCEPT ![l] = "top"]
    /\ UNCHANGED <<storeVars, histVars, clock, frameVars, frameHist, workerVars,
                   owner, last_update_id, batch, cur, inbox, next_update_id,
                   handled, outcome>>

UpdateStep(t) ==
    \/ UpdateScan(t)

\* the threads running _poll_updates
BotStep(kinds) ==
    \E l \in Loops :
        \/ PollTop(l)
        \/ PollResponse(l)
        \/ PollNext(l, kinds)
        \/ HandleUpdate(l)
        \/ BotAcknowledge(l)
        \/ PollBackoff(l)
        \/ UpdateStep(l)

\* ----------------------------------------------------------- WebNotifier
NoRequest == [kind |-> "none", filter |-> "none", alert_id |-> 0, status |-> "none"]
NoResponse == [code |-> 0, body |-> << >>]

\* GET /api/alerts?status=...: get_pending_alerts() or get_all_alerts()
GetAlerts(w) ==
    /\ wpc[w] = "idle"
    /\ \E f \in {"pending", "all"} :
         /\ wreq' = [wreq EXCEPT ![w] = [NoRequest EXCEPT !.kind = "get", !.filter = f]]
         /\ call' = [call EXCEPT ![w] =
                        IF f = "pending" THEN PendingCall ELSE AllCall(DefaultLimit)]
    /\ wpc' = [wpc EXCEPT ![w] = "get_wait"]
    /\ expect' = [expect EXCEPT ![w] = settled]
    /\ UNCHANGED <<alerts, lock, id_counter, add_returned, add_ids, written,
                   settled, clock, frameVars, frameHist, botVars, wresp>>

\* return jsonify(alerts): the listed dicts are serialised after the store
\* method has returned
Jsonify(w) ==
    /\ wpc[w] = "get_wait"
    /\ call[w].pc = "done"
    /\ wresp' = [wresp EXCEPT ![w] = [code |-> 200, body |-> Deref(call[w].result)]]
    /\ call' = [call EXCEPT ![w] = Idle]
    /\ wpc' = [wpc EXCEPT ![w] = "respond"]
    /\ UNCHANGED <<alerts, lock, id_counter, histVars, clock, frameVars, frameHist,
                   botVars, wreq>>

ValidStatusesAny == {"confirmed", "rejected", "pending"}

\* if status not in ["confirmed", "rejected"]
ValidStatuses == {"confirmed", "rejected"}

\* the statuses a request body can carry ("none": no status key)
RequestStatuses == {"confirmed", "rejected", "pending", "bogus", "none"}

\* the status codes of update_alert's answers: Invalid status, success,
\* Alert not found
InvalidStatusCode == 400

ResponseCodeOk(success) == 200
ResponseCode(success) == IF success THEN 200 ELSE 404

\* POST /api/alerts/<int:alert_id> with a JSON body {"status": ...}
UpdateAlert(w) ==
    /\ wpc[w] = "idle"
    /\ \E id \in 1..(limits.alerts + 1),
          st \in RequestStatuses :
         /\ wreq' = [wreq EXCEPT ![w] =
                       [NoRequest EXCEPT !.kind = "post", !.alert_id = id, !.status = st]]
         /\ IF st \notin ValidStatuses
            THEN /\ wresp' = [wresp EXCEPT ![w] = [code |-> InvalidStatusCode, body |-> << >>]]
                 /\ wpc' = [wpc EXCEPT ![w] = "respond"]
                 /\ UNCHANGED call
            ELSE /\ call' = [call EXCEPT ![w] = UpdateCall(id, st)]
                 /\ wpc' = [wpc EXCEPT ![w] = "post_wait"]
                 /\ UNCHANGED wresp
    /\ UNCHANGED <<alerts, lock, id_counter, histVars, clock, frameVars, frameHist,
                   botVars>>

UpdateAlertReturn(w) ==
    /\ wpc[w] = "post_wait"
    /\ call[w].pc = "done"
    /\ wresp' = [wresp EXCEPT ![w] =
                   [code |-> ResponseCode(call[w].ret_ok), body |-> << >>]]
    /\ call' = [call EXCEPT ![w] = Idle]
    /\ wpc' = [wpc EXCEPT ![w] = "respond"]
    /\ UNCHANGED <<alerts, lock, id_counter, histVars, clock, frameVars, frameHist,
                   botVars, wreq>>

\* the response has gone out; the worker serves the next request
Respond(w) ==
    /\ wpc[w] = "respond"
    /\ wpc' = [wpc EXCEPT ![w] = "idle"]
    /\ wreq' = [wreq EXCEPT ![w] = NoRequest]
    /\ wresp' = [wresp EXCEPT ![w] = NoResponse]
    /\ expect' = [expect EXCEPT ![w] = [i \in 1..Len(settled) |-> "none"]]
    /\ UNCHANGED <<storeVars, add_returned, add_ids, written, settled, clock,
                   frameVars, frameHist, botVars>>

WorkerStep(w) ==
    \/ GetAlerts(w)
    \/ Jsonify(w)
    \/ UpdateAlert(w)
    \/ UpdateAlertReturn(w)
    \/ Respond(w)
    \/ UpdateScan(w)
    \/ PendingFilter(w)
    \/ AllSlice(w)

vars == <<alerts, lock, id_counter, call, clock, add_returned, add_ids, written,
          settled, expect, frameVars, frameHist, botVars, workerVars>>

\* the state after FireDetectionPipeline.__init__ with configuration cfg
InitWith(cfg, lim) ==
    /\ alerts = << >>
    /\ lock = "free"
    /\ id_counter = 0
    /\ call = [t \in Threads |-> Idle]
    /\ clock = 0
    /\ add_returned = 0
    /\ add_ids = {}
    /\ written = << >>
    /\ config = cfg
    /\ limits = lim
    /\ fpc = "read"
    /\ consecutive_count = 0
    /\ last_alert_time = 0
    /\ alert_count = 0
    /\ detections = << >>
    /\ alert_id = 0
    /\ tg_sent = {}
    /\ run_len = 0
    /\ since_alert = 0
    /\ last_ret = FALSE
    /\ true_times = <<-1, -1>>
    /\ scen = IF cfg.consecutive_detections = DefaultThreshold
                 /\ cfg.alert_cooldown = DefaultCooldown THEN 0 ELSE -1
    /\ scen_fired = {}
    /\ polling_active = (cfg.web_dashboard_enabled /\ cfg.telegram)
    /\ last_update_id = 0
    /\ owner = "idle"
    /\ polling_thread = IF cfg.web_dashboard_enabled /\ cfg.telegram THEN BotT ELSE "none"
    /\ bpc = [l \in Loops |-> IF l = BotT /\ cfg.web_dashboard_enabled /\ cfg.telegram
                               THEN "top" ELSE "off"]
    /\ batch = [l \in Loops |-> << >>]
    /\ cur = [l \in Loops |-> NoUpdate]
    /\ inbox = << >>
    /\ next_update_id = 1
    /\ wpc = [w \in Workers |-> "idle"]
    /\ wreq = [w \in Workers |-> NoRequest]
    /\ wresp = [w \in Workers |-> NoResponse]
    /\ handled = [u \in 1..lim.events |-> 0]
    /\ outcome = [u \in 1..lim.events |-> "none"]
    /\ settled = << >>
    /\ expect = [w \in Workers |-> << >>]

DefaultConfig ==
    [consecutive_detections |-> DefaultThreshold, alert_cooldown |-> DefaultCooldown,
     web_dashboard_enabled |-> TRUE, telegram |-> TRUE]

Limits == [alerts |-> MaxAlerts, events |-> MaxEvents]

InitStore == InitWith(DefaultConfig, Limits)

Init == \E cfg \in Configs : InitWith(cfg, Limits)

Next == FrameStep \/ Tick

Spec == Init /\ [][Next]_vars

\* the whole system: every detecting frame alerts, both channels enabled
SyncConfig ==
    [consecutive_detections |-> 1, alert_cooldown |-> 0,
     web_dashboard_enabled |-> TRUE, telegram |-> TRUE]

BotLimits == [alerts |-> MaxSyncAlerts, events |-> MaxEvents]

InitBot == InitWith(SyncConfig, BotLimits)

SyncLimits == [alerts |-> MaxSyncAlerts, events |-> MaxSyncEvents]

InitSync == InitWith(SyncConfig, SyncLimits)

\* the pipeline and the polling loop
NextBot ==
    \/ FrameStep
    \/ BotStep(EventKinds)
    \/ UserClick

SpecBot == InitBot /\ [][NextBot]_vars

\* the pipeline, the polling loop and an owner that stops the polling
NextStop ==
    \/ FrameStep
    \/ BotStep(EventKinds)
    \/ UserClick
    \/ StopPolling
    \/ StopJoin

\* the polling thread runs whenever it can, and a thread inside add_alert
\* runs on to release the lock
FairStop ==
    /\ WF_vars(BotStep(EventKinds))
    /\ WF_vars(AddStep(FrameT))

InitStop == InitWith(SyncConfig, SyncLimits)

SpecStop == InitStop /\ [][NextStop]_vars /\ FairStop

\* the pipeline, the polling threads and an owner that stops and restarts
\* the polling
NextPoll ==
    \/ FrameStep
    \/ BotStep(EventKinds)
    \/ UserClick
    \/ StopPolling
    \/ StopJoin
    \/ StartPolling

InitPoll == InitWith(SyncConfig, SyncLimits)

SpecPoll == InitPoll /\ [][NextPoll]_vars

\* the buttons of the message sent for alert 1
ButtonKinds ==
    {[data |-> tok, msg |-> "ok"] :
        tok \in {<<"confirm", "_", "1">>, <<"reject", "_", "1">>}}

\* the pipeline, the polling loop and the dashboard
NextSync ==
    \/ FrameStep
    \/ BotStep(ButtonKinds)
    \/ UserClick
    \/ \E w \in Workers : WorkerStep(w)

SpecSync == InitSync /\ [][NextSync]_vars

NextStore ==
    \E c \in Clients :
        \/ ClientAdd(c)
        \/ ClientUpdate(c)
        \/ ClientPending(c)
        \/ ClientAll(c)
        \/ ClientReturn(c)
        \/ StoreStep(c)

SpecStore == InitStore /\ [][NextStore]_vars

\* ================================================================ claims

\* C1: with consecutive_detections >= 1, a _should_alert call returns True
\* only when it ends an unbroken run of at least consecutive_detections
\* calls with has_detections = True.
C1_AlertNeedsRun ==
    (config.consecutive_detections >= 1 /\ last_ret)
        => run_len >= config.consecutive_detections

\* a second alert, fired by a run that started after a detection-less frame
C1_Witness ==
    /\ last_ret /\ fpc = "web"
    /\ config.consecutive_detections = 3
    /\ alert_count = 1
    /\ run_len = 3

\* C2: with a clock that does not go backwards, two _should_alert calls that
\* return True are at least alert_cooldown apart.
C2_CooldownApart ==
    true_times[1] >= 0 => true_times[2] - true_times[1] >= config.alert_cooldown

\* two calls returned True under a positive cooldown, the counter having
\* run up again in between
C2_Witness ==
    /\ true_times[1] >= 0
    /\ config.alert_cooldown = 2
    /\ config.consecutive_detections = 2

\* C10: threshold 3, cooldown 30, flags [T,T,F,T,T,T,T] at t = 0..6 on a
\* fresh pipeline: exactly the call at t = 5 returns True, and the call at
\* t = 6 leaves consecutive_count = 1.
C10_ScenarioFiresOnce ==
    scen = Len(Scenario) => (scen_fired = {5} /\ consecutive_count = 1)

HasId(aid) == \E i \in 1..Len(alerts) : alerts[i].id = aid

\* the step of thread t that runs the body of update_status
UpdateBodyStep(t) == call[t].pc = "scan" /\ call'[t].pc = "done"

\* the step of thread t that runs the body of a read method
ReadBodyStep(t) == call[t].pc \in {"filter", "slice"} /\ call'[t].pc = "done"

\* C3: concurrent add_alert calls: as many alerts as calls that returned,
\* the returned ids pairwise distinct, ids never reused, and self.alerts
\* strictly increasing by id.
C3_ConcurrentAdds ==
    /\ \A i \in 1..(Len(alerts) - 1) : alerts[i].id < alerts[i + 1].id
    /\ \A i \in 1..Len(alerts) : alerts[i].id <= id_counter
    /\ Cardinality(add_ids) = add_returned
    /\ Len(alerts) = add_returned

\* one add_alert is about to append inside the lock while another add_alert
\* call waits for the lock
C3_Witness ==
    \E c, d \in Clients :
        /\ call[c].op = "add" /\ call[c].pc = "append"
        /\ call[d].op = "add" /\ call[d].pc = "incr"

\* C4: update_status with an id no stored alert has returns False, raises
\* nothing and changes neither the alerts nor the id counter.
C4_UnknownIdNoChange ==
    [][\A t \in Threads :
         (UpdateBodyStep(t) /\ ~HasId(call[t].alert_id))
            => /\ call'[t].ret_ok = FALSE
               /\ ~call'[t].raised
               /\ alerts' = alerts
               /\ id_counter' = id_counter]_vars

\* update_status has returned False on a store that holds alerts
C4_Witness ==
    \E t \in Threads :
        /\ call[t].op = "update" /\ call[t].pc = "done"
        /\ ~call[t].ret_ok
        /\ Len(alerts) >= 1

\* C5: update_status with an existing id returns True and changes only the
\* status of the alert with that id; every later read sees, for each alert,
\* the status written last.
C5_UpdateOnlyStatus ==
    /\ [][\A t \in Threads :
            (UpdateBodyStep(t) /\ HasId(call[t].alert_id))
               => /\ call'[t].ret_ok = TRUE
                  /\ id_counter' = id_counter
                  /\ \E i \in 1..Len(alerts) :
                       /\ alerts[i].id = call[t].alert_id
                       /\ alerts' = [alerts EXCEPT ![i].status = call[t].status]]_vars
    /\ [][\A t \in Threads :
            ReadBodyStep(t)
               => \A k \in 1..Len(call'[t].result) :
                    LET i == call'[t].result[k] IN
                      alerts[i].status =
                         IF written[i] = "none" THEN "pending" ELSE written[i]]_vars

\* update_status has returned True for one of two stored alerts, which now
\* differ in status
C5_Witness ==
    \E t \in Threads :
        /\ call[t].op = "update" /\ call[t].pc = "done"
        /\ call[t].ret_ok
        /\ Len(alerts) = 2
        /\ alerts[1].status # alerts[2].status

\* C6: get_pending_alerts returns exactly the alerts whose status is
\* pending, in creation order and without a limit; none of them has had its
\* status set by an earlier update_status.
C6_PendingExact ==
    [][\A t \in Threads :
         (ReadBodyStep(t) /\ call[t].op = "pending")
            => LET r == call'[t].result IN
                 /\ \A k \in 1..(Len(r) - 1) : r[k] < r[k + 1]
                 /\ {r[k] : k \in 1..Len(r)}
                       = {i \in 1..Len(alerts) : alerts[i].status = "pending"}
                 /\ \A k \in 1..Len(r) : written[r[k]] = "none"]_vars

\* get_pending_alerts has left out a confirmed alert and returned a pending one
C6_Witness ==
    \E t \in Threads :
        /\ call[t].op = "pending" /\ call[t].pc = "done"
        /\ Len(alerts) = 2
        /\ alerts[1].status = "confirmed"
        /\ call[t].result = <<2>>

\* C7: once the polling loop has applied confirm_<k> (reject_<k>) to the
\* stored alert k, a dashboard read that starts afterwards, with no status
\* update of k since, shows k as confirmed (rejected): every entry for k has
\* that status, a pending read has no entry for k, and an all read has one
\* while k is among the DefaultLimit most recent alerts.
C7_BotActionVisible ==
    \A w \in Workers :
        (wpc[w] = "respond" /\ wreq[w].kind = "get")
           => \A i \in 1..Len(expect[w]) :
                expect[w][i] # "none"
                   => LET body == wresp[w].body
                          entries == {j \in 1..Len(body) : body[j].id = alerts[i].id}
                      IN /\ \A j \in entries : body[j].status = expect[w][i]
                         /\ wreq[w].filter = "pending" => entries = {}
                         /\ (wreq[w].filter = "all" /\ Len(alerts) - i < DefaultLimit)
                               => entries # {}

\* a read of all alerts that started after the bot rejected alert 1 has
\* been answered
C7_Witness ==
    \E w \in Workers :
        /\ wpc[w] = "respond" /\ wreq[w].kind = "get" /\ wreq[w].filter = "all"
        /\ Len(expect[w]) >= 1
        /\ expect[w][1] = "rejected"

\* C8: last_update_id starts at 0, never decreases and is at least the id of
\* an update before that update is handled; no update id is handled twice,
\* also when handling an update raises.
C8_OffsetAtMostOnce ==
    /\ last_update_id = 0
    /\ [][last_update_id' >= last_update_id]_vars
    /\ [](bpc[BotT] = "handle" => last_update_id >= cur[BotT].update_id)
    /\ [](\A u \in DOMAIN handled : handled[u] <= 1)

\* handling the second update raised: both updates were handled once, the
\* offset is past them and the loop is in its backoff
C8_Witness ==
    /\ bpc[BotT] = "backoff"
    /\ cur[BotT].update_id = 2
    /\ cur[BotT].msg # "ok"
    /\ handled[1] = 1
    /\ handled[2] = 1
    /\ last_update_id = 2

\* C9: for an action <action>_<id> whose id no stored alert has,
\* update_status returns False and no caption edit with a CONFIRMED /
\* REJECTED status line is attempted.
C9_NoEditOnFailure ==
    [][(bpc[BotT] = "callback" /\ bpc'[BotT] = "loop"
          /\ StatusText(Action(cur[BotT].data)) \in {"CONFIRMED", "REJECTED"})
         => HasId(call[BotT].alert_id)]_vars

\* C11: once the pipeline has stopped (its loop left, _cleanup run), the
\* polling loop has been signalled to stop: polling_active is cleared.
C11_StopSignalsPolling ==
    fpc = "done" => ~polling_active

\* C12: with the dashboard enabled, add_alert has returned before
\* TelegramNotifier.send_alert is called, the id passed for the buttons is
\* the id it returned, and every message sent carries the id of a stored
\* alert.
C12_IdBeforeSend ==
    config.web_dashboard_enabled
       => /\ fpc = "telegram"
               => /\ call[FrameT].op = "none"
                  /\ alert_id \in add_ids
                  /\ HasId(alert_id)
          /\ \A k \in tg_sent : HasId(k)

\* two alerts were stored and a message was delivered for each
C12_Witness ==
    /\ config.web_dashboard_enabled /\ config.telegram
    /\ tg_sent = {1, 2}
    /\ Len(alerts) = 2

\* the send for the alert being dispatched has returned False
FailedSend ==
    /\ fpc = "record"
    /\ config.telegram /\ config.web_dashboard_enabled
    /\ alert_id \notin tg_sent

\* C13: a Telegram send that fails returns to the frame loop without an
\* exception: the alert added before stays in the store, the alert is
\* recorded and the loop goes on to its next iteration.
C13_SendFailureNotFatal ==
    /\ [][(fpc = "telegram" /\ fpc' # fpc)
             => (fpc' = "record" /\ alerts' = alerts)]_vars
    /\ [](FailedSend => HasId(alert_id))
    /\ [][(FailedSend /\ fpc' # fpc)
             => /\ fpc' \in {EndOfIteration(FALSE), EndOfIteration(TRUE)}
                /\ alerts' = alerts
                /\ alert_count' = alert_count + 1]_vars

\* the send failed for the first alert, the loop went on, and the send for
\* the second alert has failed as well; both alerts are stored
C13_Witness ==
    /\ FailedSend
    /\ alert_count = 1
    /\ tg_sent = {}
    /\ Len(alerts) = 2

\* C14: an update whose callback_data has no "_" or no integer after the
\* first "_" is passed over: the callback is not called, nothing is
\* acknowledged or edited, the store is unchanged, the loop goes on with the
\* next update of the batch, and the update is not handled again.
C14_MalformedDropped ==
    /\ [][(handled' # handled /\ cur[BotT].msg # "nomessage"
             /\ (~HasSep(cur[BotT].data) \/ ~IsInt(IdStr(cur[BotT].data))))
            => /\ bpc'[BotT] = "loop"
               /\ outcome'[cur[BotT].update_id] = "dropped"
               /\ call' = call
               /\ alerts' = alerts
               /\ batch'[BotT] = batch[BotT]
               /\ last_update_id' = last_update_id]_vars
    /\ [](\A u \in DOMAIN outcome : outcome[u] = "dropped" => handled[u] = 1)

\* update 1 was dropped while an alert was stored, and the loop has gone on
\* to the callback of update 2
C14_Witness ==
    /\ outcome[1] = "dropped"
    /\ outcome[2] = "called"
    /\ bpc[BotT] = "callback"
    /\ Len(alerts) = 1
    /\ alerts[1].status = "pending"

Min(a, b) == IF a <= b THEN a ELSE b

\* C15: for a store of n alerts and a limit >= 0, get_all_alerts(limit)
\* returns exactly the Min(limit, n) most recently added alerts, most
\* recent first.
C15_AllMostRecent ==
    [][\A t \in Threads :
         (ReadBodyStep(t) /\ call[t].op = "all" /\ call[t].limit >= 0)
            => LET r == call'[t].result
                   n == Len(alerts)
               IN /\ Len(r) = Min(call[t].limit, n)
                  /\ \A k \in 1..Len(r) : r[k] = n + 1 - k]_vars

\* C16: POST /api/alerts/<id>: a status other than confirmed and rejected
\* is answered 400 without a store call, for known and unknown ids; a valid
\* status is passed to update_status, which for an unknown id changes
\* nothing and is answered 404, and for a stored id sets that alert's status
\* and is answered 200.
C16_PostAnswers ==
    /\ [][\A w \in Workers :
            (wpc[w] = "idle" /\ wreq'[w].kind = "post")
               => IF wreq'[w].status \in {"confirmed", "rejected"}
                  THEN /\ wpc'[w] = "post_wait"
                       /\ call'[w].op = "update"
                       /\ call'[w].alert_id = wreq'[w].alert_id
                       /\ call'[w].status = wreq'[w].status
                  ELSE /\ wpc'[w] = "respond"
                       /\ wresp'[w].code = 400
                       /\ call' = call
                       /\ alerts' = alerts]_vars
    /\ [][\A w \in Workers :
            (wpc[w] = "post_wait" /\ UpdateBodyStep(w))
               => IF HasId(wreq[w].alert_id)
                  THEN /\ call'[w].ret_ok
                       /\ \E i \in 1..Len(alerts) :
                            /\ alerts[i].id = wreq[w].alert_id
                            /\ alerts' = [alerts EXCEPT ![i].status = wreq[w].status]
                  ELSE /\ ~call'[w].ret_ok
                       /\ alerts' = alerts]_vars
    /\ [][\A w \in Workers :
            (wpc[w] = "post_wait" /\ wpc'[w] = "respond")
               => /\ wresp'[w].code = IF call[w].ret_ok THEN 200 ELSE 404
                  /\ alerts' = alerts]_vars

\* a POST for an id that no alert of the non-empty store has was answered 404
C16_Witness ==
    \E w \in Workers :
        /\ wpc[w] = "respond" /\ wreq[w].kind = "post"
        /\ wresp[w].code = 404
        /\ Len(alerts) = 1
        /\ ~HasId(wreq[w].alert_id)

\* C17: every stored alert has status pending, confirmed or rejected; an
\* alert is pending when it is appended, and once its status is not pending
\* it is never pending again.
C17_StatusLifecycle ==
    /\ [](\A i \in 1..Len(alerts) :
            alerts[i].status \in {"pending", "confirmed", "rejected"})
    /\ [][Len(alerts') > Len(alerts)
             => alerts'[Len(alerts')].status = "pending"]_vars
    /\ [][\A i \in 1..Len(alerts) :
            alerts[i].status # "pending" => alerts'[i].status # "pending"]_vars

\* a POST asking to set a confirmed alert back to pending has been refused
C17_Witness ==
    \E w \in Workers :
        /\ wpc[w] = "respond" /\ wreq[w].kind = "post"
        /\ wreq[w].status = "pending"
        /\ HasId(wreq[w].alert_id)
        /\ alerts[1].status = "confirmed"

\* C18: with consecutive_detections <= 0, a frame with detections alerts
\* exactly when now - last_alert_time is not below alert_cooldown, and a
\* frame without detections does not alert.
C18_NonPositiveThreshold ==
    [][(config.consecutive_detections <= 0 /\ fpc = "read")
         => /\ run_len' = run_len + 1
                 => /\ last_ret' <=> ~(clock - last_alert_time < config.alert_cooldown)
                    /\ last_ret' <=> (fpc' = "web")
            /\ fpc' = "web" => run_len' = run_len + 1]_vars

\* under a negative threshold and a positive cooldown, a second alert is
\* triggered by a frame of the same run of detections
C18_Witness ==
    /\ config.consecutive_detections < 0
    /\ config.alert_cooldown = 2
    /\ fpc = "web"
    /\ alert_count = 1
    /\ run_len >= 2

C20_StopTerminates ==
    /\ [][(~polling_active /\ bpc[BotT] # "request") => bpc'[BotT] # "request"]_vars
    /\ [][(~polling_active /\ bpc[BotT] = "top" /\ bpc'[BotT] # bpc[BotT]) => bpc'[BotT] = "stopped"]_vars
    /\ [][bpc[BotT] = "stopped" => bpc'[BotT] = "stopped"]_vars
    /\ (~polling_active) ~> (bpc[BotT] = "stopped")

\* the flag was cleared and the loop has ended, having handled update 1,
\* which rejected alert 1
C20_Witness ==
    /\ bpc[BotT] = "stopped"
    /\ outcome[1] = "edited"
    /\ last_update_id = 1
    /\ Len(alerts) = 1
    /\ alerts[1].status = "rejected"

\* C21: a frame whose alert decision is true is dispatched and recorded
\* whatever the channels do: it ends with consecutive_count = 0 and
\* last_alert_time = the time of recording; so with a threshold >= 1 the
\* next alert needs at least that many detecting frames in a row after it.
C21_AlertResets ==
    /\ [](last_ret => \/ fpc \in {"web", "web_wait", "telegram", "record"}
                      \/ /\ consecutive_count = 0
                         /\ last_alert_time >= true_times[2])
    /\ [][(fpc = "record" /\ fpc' # fpc)
             => /\ consecutive_count' = 0
                /\ last_alert_time' = clock
                /\ fpc' \in {EndOfIteration(FALSE), EndOfIteration(TRUE)}]_vars
    /\ []((fpc = "web" /\ config.consecutive_detections >= 1)
             => since_alert >= config.consecutive_detections)

\* constant detection with threshold 2 and cooldown 0, no channel enabled:
\* the second alert is triggered on the fourth frame
C21_Witness ==
    /\ config.consecutive_detections = 2 /\ config.alert_cooldown = 0
    /\ ~config.web_dashboard_enabled /\ ~config.telegram
    /\ fpc = "web"
    /\ alert_count = 1
    /\ run_len = 4
    /\ since_alert = 2

\* C22: update_status calls for the same stored alert that overlap all
\* return True, each call's write replaces the status written before it and
\* changes no other alert, so the alert's status is always the status
\* written by the call that ran its critical section last.
C22_LastWriteWins ==
    /\ [](\A i \in 1..Len(alerts) :
            alerts[i].status = IF written[i] = "none" THEN "pending" ELSE written[i])
    /\ [][\A t \in Threads :
            (UpdateBodyStep(t) /\ HasId(call[t].alert_id))
               => /\ call'[t].ret_ok
                  /\ \A i \in 1..Len(alerts) :
                       alerts'[i] = IF alerts[i].id = call[t].alert_id
                                    THEN [alerts[i] EXCEPT !.status = call[t].status]
                                    ELSE alerts[i]]_vars

\* two update_status calls for the first of two alerts, one confirming and
\* one rejecting, have both returned True
C22_Witness ==
    /\ \A c \in Clients :
         /\ call[c].op = "update" /\ call[c].pc = "done" /\ call[c].ret_ok
    /\ Len(alerts) = 2
    /\ written[1] \in {"confirmed", "rejected"}
    /\ written[2] = "none"
    /\ \E c, d \in Clients : call[c].status # call[d].status

\* C23: a detecting frame held back only by the cooldown leaves
\* consecutive_count incremented, not reset; a detecting frame that finds
\* the count at or above the threshold and the cooldown over alerts at once.
C23_CooldownKeepsCount ==
    [][(fpc = "read" /\ run_len' = run_len + 1)
         => /\ (consecutive_count + 1 >= config.consecutive_detections
                  /\ clock - last_alert_time < config.alert_cooldown)
                 => (~last_ret' /\ consecutive_count' = consecutive_count + 1)
            /\ (consecutive_count >= config.consecutive_detections
                  /\ clock - last_alert_time >= config.alert_cooldown)
                 => (last_ret' /\ fpc' = "web")]_vars

\* after a first alert the detections went on through the cooldown: the
\* count has grown past the threshold and the second alert is triggered
C23_Witness ==
    /\ config.consecutive_detections = 2 /\ config.alert_cooldown = 2
    /\ alert_count = 1
    /\ fpc = "web"
    /\ consecutive_count > config.consecutive_detections
    /\ clock - last_alert_time >= config.alert_cooldown

\* C24: every alert in the response to GET /api/alerts?status=pending has
\* status pending in that response, also when update_status runs for it
\* while the request is served.
C24_PendingResponsePending ==
    \A w \in Workers :
        (wpc[w] = "respond" /\ wreq[w].kind = "get" /\ wreq[w].filter = "pending")
           => \A j \in 1..Len(wresp[w].body) : wresp[w].body[j].status = "pending"

\* C26: through the polling loop an alert's status changes only for the
\* actions confirm (to confirmed) and reject (to rejected): a callback for
\* any other action leaves the alerts as they are.
C26_OnlyConfirmReject ==
    [][(UpdateBodyStep(BotT) /\ alerts' # alerts)
         => \/ Action(cur[BotT].data) = <<"confirm">> /\ call[BotT].status = "confirmed"
            \/ Action(cur[BotT].data) = <<"reject">> /\ call[BotT].status = "rejected"]_vars

\* C27: an add_alert call that raises inside the critical section leaves
\* the store as it was before the call: nothing appended, the lock released
\* and the id counter not advanced, so the stored ids are exactly 1..n.
C27_FailedAddNoTrace ==
    /\ [][\A t \in Threads :
            (call[t].op = "add" /\ call'[t].raised)
               => /\ alerts' = alerts
                  /\ lock' = "free"
                  /\ id_counter' = Len(alerts)]_vars
    /\ [](\A i \in 1..Len(alerts) : alerts[i].id = i)

\* the polling threads inside _poll_updates
Running == {l \in Loops : bpc[l] \notin {"off", "stopped"}}

\* C25: whatever sequence of start_polling and stop_polling is called, at
\* most one thread runs the polling loop at any time, and no update is
\* handled more than once.
C25_OnePollingLoop ==
    /\ Cardinality(Running) <= 1
    /\ \A u \in DOMAIN handled : handled[u] <= 1

====
